---- MODULE Spec2Model ----
(***************************************************************************)
(* The transport request backend (backend/fastapi_app.py): the handler of  *)
(* POST /api/submit, the attachment write and the record store             *)
(* (save_to_excel), as a state machine over the two shared resources: the  *)
(* record-store file and the attachments directory.                        *)
(*                                                                         *)
(* Text is a sequence of one-character strings; a JSON value carries its   *)
(* type; a file's text is either the serialisation of a value or text that *)
(* no JSON parser accepts.                                                 *)
(***************************************************************************)
EXTENDS Integers, Sequences, FiniteSets, TLC

VARIABLES
    clock,      \* the wall clock, in seconds since midnight of the first day
    store,      \* the record-store file (transport_requests.json)
    files,      \* the attachments directory: file name -> bytes
    pc,         \* each submission's position in the handler
    inp,        \* each submission's form: the data field and the attachment part
    loc,        \* each submission's local variables
    resp,       \* each submission's HTTP response
    events,     \* each submission's structured log events, in order
    fx,         \* each submission's effects on the shared files (history)
    loop,       \* the submission the event loop is running (0: none)
    faults,     \* the I/O faults injected so far (history)
    store0      \* the record-store file as the run found it (history)

vars == <<clock, store, files, pc, inp, loc, resp, events, fx, loop, faults, store0>>

----------------------------------------------------------------------------
(* Bounds of the model *)

NumRequests == 2
MaxTicks == 1
RandChoices == 1
MaxInitial == 1
MaxFaults == 1
MaxBadFields == 2

Requests == 1..NumRequests

----------------------------------------------------------------------------
(* Text *)

Whitespace == {" "}

DigitChars == <<"0", "1", "2", "3", "4", "5", "6", "7", "8", "9">>

Digits == {DigitChars[i] : i \in 1..10}

RECURSIVE Dec(_)
Dec(n) == IF n < 10 THEN <<DigitChars[n + 1]>>
          ELSE Dec(n \div 10) \o <<DigitChars[(n % 10) + 1]>>

RECURSIVE Zeros(_)
Zeros(k) == IF k <= 0 THEN <<>> ELSE <<"0">> \o Zeros(k - 1)

ZeroPad(n, w) == Zeros(w - Len(Dec(n))) \o Dec(n)

RECURSIVE lstrip(_)
lstrip(s) == IF s # <<>> /\ Head(s) \in Whitespace THEN lstrip(Tail(s)) ELSE s

RECURSIVE rstrip(_)
rstrip(s) == IF s # <<>> /\ s[Len(s)] \in Whitespace
             THEN rstrip(SubSeq(s, 1, Len(s) - 1)) ELSE s

strip(s) == rstrip(lstrip(s))

\* The largest index of character c in p, 0 when there is none.
rfind(p, c) == LET hits == {i \in 1..Len(p) : p[i] = c}
               IN  IF hits = {} THEN 0 ELSE CHOOSE i \in hits : \A j \in hits : j <= i

\* os.path.splitext(p)[1]: from the last dot, when that dot follows the last
\* separator and some character between them is not a dot.
splitext(p) ==
    LET sepIndex == rfind(p, "/")
        dotIndex == rfind(p, ".")
    IN  IF dotIndex > sepIndex /\ \E i \in (sepIndex + 1)..(dotIndex - 1) : p[i] # "."
        THEN SubSeq(p, dotIndex, Len(p))
        ELSE <<>>

----------------------------------------------------------------------------
(* JSON values and the form's data field *)

Str(s) == [ty |-> "str", s |-> s]

Num == [ty |-> "num", s |-> <<>>]

NoDict == [k \in {} |-> Str(<<>>)]

Dict(d) == [ty |-> "dict", d |-> d]

NonDict(ty) == [ty |-> ty, d |-> NoDict]

\* The text json.dumps gives for a value, and text that is no JSON.
Dumps(v) == [t |-> "json", v |-> v]

Malformed(v) == [t |-> "bad", v |-> v]

\* json.loads: the value, or JSONDecodeError.
json_loads(text) == [ok |-> text.t = "json", value |-> text.v]

\* dict.get(key, '')
Get(d, k) == IF k \in DOMAIN d THEN d[k] ELSE Str(<<>>)

----------------------------------------------------------------------------
(* TransportRequest and its validator *)

RequiredFields == {"deliveryNoteNumber", "truckLicensePlates", "carrierCountry",
                   "carrierTaxCode", "carrierFullName", "borderCrossing"}

OptionalFields == {"trailerLicensePlates", "borderCrossingDate"}

AllFields == RequiredFields \cup OptionalFields

\* "if not v": a value of whitespace only passes
validate_only_falsy(v) ==
    IF v = <<>> THEN [ok |-> FALSE, value |-> v] ELSE [ok |-> TRUE, value |-> strip(v)]

\* validate_non_empty_string(v): raises ValueError, or returns v.strip().
validate_non_empty_string(v) ==
    IF v = <<>> \/ strip(v) = <<>>
    THEN [ok |-> FALSE, value |-> v]
    ELSE [ok |-> TRUE, value |-> strip(v)]

\* TransportRequest(**d) for a dict d: every field present and a string, the six
\* required ones accepted by the validator; keys outside the schema are ignored.
TransportRequest(d) ==
    [ok    |-> \A f \in AllFields :
                  /\ f \in DOMAIN d
                  /\ d[f].ty = "str"
                  /\ f \in RequiredFields => validate_non_empty_string(d[f].s).ok,
     model |-> [f \in AllFields |->
                  IF f \in DOMAIN d /\ d[f].ty = "str"
                  THEN IF f \in RequiredFields
                       THEN validate_non_empty_string(d[f].s).value
                       ELSE d[f].s
                  ELSE <<>>]]

\* StructuredLogger.log_form_submit reads form_data.get(...): AttributeError for
\* anything that is not a dict.
log_form_submit_raises(form_data) == form_data.ty # "dict"

\* "except Exception" placed before "except json.JSONDecodeError"
ParseAndValidateOneHandler(data) ==
    LET parsed == json_loads(data) IN
    IF parsed.ok /\ parsed.value.ty = "dict" /\ TransportRequest(parsed.value.d).ok
    THEN "accepted"
    ELSE IF parsed.ok /\ log_form_submit_raises(parsed.value) THEN "unhandled"
         ELSE "invalid_data"

\* Lines 84-133: what the try block and its two handlers make of the data field.
\*   "accepted"      parsed and validated, PROCESSING logged
\*   "invalid_json"  JSONDecodeError: ERROR logged, HTTP 400 "Invalid JSON: ..."
\*   "invalid_data"  any other exception: ERROR logged, HTTP 400 "Invalid data: ..."
\*   "unhandled"     the second handler's own log call raised: HTTP 500, no event
ParseAndValidate(data) ==
    LET parsed == json_loads(data) IN
    IF ~parsed.ok THEN "invalid_json"
    ELSE IF parsed.value.ty = "dict" /\ TransportRequest(parsed.value.d).ok
         THEN "accepted"
         ELSE IF log_form_submit_raises(parsed.value) THEN "unhandled"
              ELSE "invalid_data"

----------------------------------------------------------------------------
(* The request identifier *)

\* The moment the first submission may arrive: one second before midnight, so
\* that the clock's one tick changes every part of the time and the day.
StartOfRun == [year |-> 2025, month |-> 10, day |-> 30, second |-> (24 * 3600) - 1]

Seconds(t) == StartOfRun.second + t

\* datetime.now().strftime("%Y%m%d-%H%M%S")
strftime(t) ==
    LET s == Seconds(t) % (24 * 3600)
    IN  ZeroPad(StartOfRun.year, 4) \o ZeroPad(StartOfRun.month, 2)
        \o ZeroPad(StartOfRun.day + (Seconds(t) \div (24 * 3600)), 2) \o <<"-">>
        \o ZeroPad(s \div 3600, 2) \o ZeroPad((s % 3600) \div 60, 2) \o ZeroPad(s % 60, 2)

\* datetime.now().isoformat(), to the second
isoformat(t) ==
    LET s == Seconds(t) % (24 * 3600)
    IN  ZeroPad(StartOfRun.year, 4) \o <<"-">> \o ZeroPad(StartOfRun.month, 2) \o <<"-">>
        \o ZeroPad(StartOfRun.day + (Seconds(t) \div (24 * 3600)), 2) \o <<"T">>
        \o ZeroPad(s \div 3600, 2) \o <<":">> \o ZeroPad((s % 3600) \div 60, 2)
        \o <<":">> \o ZeroPad(s % 60, 2)

RandLow == 100

RandHigh == 999

\* randint(10, 999): identifiers whose last part has two digits
RandValuesFromTen == {10, RandHigh}

\* random.randint(100, 999): the model draws from the first RandChoices values
\* and from the last one.
RandValues == {v \in RandLow..RandHigh : v < RandLow + RandChoices} \cup {RandHigh}

\* f"REQ-{now}-{rand}"
RequestId(t, rand) == <<"R", "E", "Q", "-">> \o strftime(t) \o <<"-">> \o Dec(rand)

\* REQ-\d{8}-\d{6}-\d{3}
MatchesIdPattern(id) ==
    /\ Len(id) = 23
    /\ SubSeq(id, 1, 4) = <<"R", "E", "Q", "-">>
    /\ \A i \in 5..12 : id[i] \in Digits
    /\ id[13] = "-"
    /\ \A i \in 14..19 : id[i] \in Digits
    /\ id[20] = "-"
    /\ \A i \in 21..23 : id[i] \in Digits

\* f"attachment_{request_id}{ext}"
AttachmentPrefix == <<"a", "t", "t", "a", "c", "h", "m", "e", "n", "t", "_">>

new_filename(request_id, filename) == AttachmentPrefix \o request_id \o splitext(filename)


----------------------------------------------------------------------------
(* The record store *)

\* save_to_excel's row_data (lines 211-223)
row_data(request_id, data, has_attachment, t) ==
    [Request_ID             |-> request_id,
     Timestamp              |-> isoformat(t),
     Delivery_Note_Number   |-> Get(data, "deliveryNoteNumber"),
     Truck_License_Plates   |-> Get(data, "truckLicensePlates"),
     Trailer_License_Plates |-> Get(data, "trailerLicensePlates"),
     Carrier_Country        |-> Get(data, "carrierCountry"),
     Carrier_Tax_Code       |-> Get(data, "carrierTaxCode"),
     Carrier_Full_Name      |-> Get(data, "carrierFullName"),
     Border_Crossing        |-> Get(data, "borderCrossing"),
     Border_Crossing_Date   |-> Get(data, "borderCrossingDate"),
     Has_Attachment         |-> IF has_attachment THEN "Yes" ELSE "No"]

\* The file: absent, the text of a JSON value (a list of rows, or something that
\* is not a list), or text no parser accepts (an empty file, a partial write).
\* size is the length of the text, which decides what a write at offset 0 leaves
\* of the text it overwrites.
RowSize(row) == 1 + Len(row.Request_ID) + Len(row.Timestamp)
                + Len(row.Delivery_Note_Number.s) + Len(row.Truck_License_Plates.s)
                + Len(row.Trailer_License_Plates.s) + Len(row.Carrier_Country.s)
                + Len(row.Carrier_Tax_Code.s) + Len(row.Carrier_Full_Name.s)
                + Len(row.Border_Crossing.s) + Len(row.Border_Crossing_Date.s)

RECURSIVE TextSize(_)
TextSize(items) == IF items = <<>> THEN 2 ELSE RowSize(Head(items)) + TextSize(Tail(items))

StoreAbsent == [t |-> "absent", ty |-> "list", items |-> <<>>, size |-> 0]

\* json.dump(existing_data, f, ...): the whole text of the list
StoreText(items) == [t |-> "json", ty |-> "list", items |-> items, size |-> TextSize(items)]

\* a file holding a JSON object instead of a list
StoreNotAList == [t |-> "json", ty |-> "dict", items |-> <<>>, size |-> 2]

\* open(json_path, 'w'): the file exists and is empty
StoreEmptied == [t |-> "bad", ty |-> "list", items |-> <<>>, size |-> 0]

\* text that is not JSON: the first n characters of a longer text
StoreGarbage(n) == [t |-> "bad", ty |-> "list", items |-> <<>>, size |-> n]

\* f.write of a text at offset 0 of the file as it stands: the text, followed by
\* whatever of the file lies beyond it.
WriteAtStart(file, text) == IF file.size <= text.size THEN text ELSE StoreGarbage(file.size)

\* json.load without the test of json_path.exists()
LoadExistingUnguarded(file) == [ok |-> file.t = "json", ty |-> file.ty, items |-> file.items]

\* Lines 233-236: [] when the file does not exist, else json.load of its text.
LoadExisting(file) ==
    IF file.t = "absent" THEN [ok |-> TRUE, ty |-> "list", items |-> <<>>]
    ELSE [ok |-> file.t = "json", ty |-> file.ty, items |-> file.items]

\* existing_data.insert(0, row_data)
AppendRowInFront(existing, row) ==
    [ok |-> existing.ok /\ existing.ty = "list", items |-> <<row>> \o existing.items]

\* Line 239: existing_data.append(row_data); AttributeError unless a list.
AppendRow(existing, row) ==
    [ok |-> existing.ok /\ existing.ty = "list", items |-> Append(existing.items, row)]


----------------------------------------------------------------------------
(* The inputs the model draws from *)

FieldLetter == [deliveryNoteNumber |-> "d", truckLicensePlates |-> "t",
                trailerLicensePlates |-> "l", carrierCountry |-> "c",
                carrierTaxCode |-> "x", carrierFullName |-> "n",
                borderCrossing |-> "b", borderCrossingDate |-> "e"]

\* A payload every field of which is a one-letter string.
BasePayload == [f \in AllFields |-> Str(<<FieldLetter[f]>>)]

With(d, k, v) == [f \in DOMAIN d \cup {k} |-> IF f = k THEN v ELSE d[f]]

Without(d, k) == [f \in DOMAIN d \ {k} |-> d[f]]

\* What one key of a payload may hold: strings with and without content and
\* surrounding whitespace, and a number.
ValuesOf(c) == {Str(<<>>), Str(<<" ">>), Str(<<" ", " ">>), Str(<<c>>), Str(<<" ", c, " ">>),
                Num}

ExtraKey == "invalidField"

Variants(d) ==
    UNION {{With(d, f, v) : v \in ValuesOf(FieldLetter[f])} : f \in AllFields}
    \cup {Without(d, f) : f \in AllFields}
    \cup {With(d, ExtraKey, Str(<<"z">>))}

RECURSIVE PayloadsWithin(_)
PayloadsWithin(n) ==
    IF n = 0 THEN {BasePayload}
    ELSE LET less == PayloadsWithin(n - 1)
         IN  less \cup UNION {Variants(d) : d \in less}

\* The data fields of the validation runs: every payload that differs from the
\* base payload in at most MaxBadFields keys, JSON that is not an object, and
\* text that is not JSON.
WideData ==
    {Dumps(Dict(d)) : d \in PayloadsWithin(MaxBadFields)}
    \cup {Dumps(NonDict("list")), Dumps(NonDict("str")), Dumps(NonDict("null"))}
    \cup {Malformed(Dict(BasePayload)), Malformed(NonDict("str"))}

\* The data fields of the concurrent runs.
PaddedPayload == With(With(BasePayload, "deliveryNoteNumber", Str(<<" ", "d", " ">>)),
                      "trailerLicensePlates", Str(<<>>))

Data ==
    {Dumps(Dict(BasePayload)),
     Dumps(Dict(With(PaddedPayload, ExtraKey, Str(<<"z">>)))),
     Dumps(Dict(With(With(NoDict, "deliveryNoteNumber", Str(<<>>)), ExtraKey, Str(<<"z">>)))),
     Malformed(Dict(BasePayload))}

NoAttachment == [present |-> FALSE, filename |-> <<>>, content |-> <<>>]

Upload(filename, content) == [present |-> TRUE, filename |-> filename, content |-> content]

Attachments ==
    {NoAttachment,
     Upload(<<"a", ".", "b">>, <<1>>),
     Upload(<<"c", ".", "a", ".", "b">>, <<2, 3>>)}

FewAttachments == {NoAttachment, Upload(<<"a", ".", "b">>, <<1>>)}

WideAttachments ==
    Attachments \cup
    {Upload(<<>>, <<1>>), Upload(<<"a">>, <<>>), Upload(<<".", "b">>, <<4>>), Upload(<<"a", ".">>, <<5>>),
     Upload(<<"a", ".", "b", "/", "c">>, <<6>>), Upload(<<".", ".", "b">>, <<7>>)}

\* The rows a store holds before the run.
OldRow(i) == row_data(<<"O", "L", "D">> \o Dec(i), BasePayload, i % 2 = 0, 0)

OldRows(k) == [i \in 1..k |-> OldRow(i)]

InitialStores == {StoreAbsent, StoreText(OldRows(MaxInitial))}

WideInitialStores ==
    {StoreAbsent, StoreNotAList, StoreGarbage(3)} \cup {StoreText(OldRows(k)) : k \in 0..MaxInitial}

WellFormed(file) == file.t = "absent" \/ (file.t = "json" /\ file.ty = "list")

----------------------------------------------------------------------------
(* The state after start-up *)

NoFiles == [n \in {} |-> <<>>]

NoRow == row_data(<<>>, NoDict, FALSE, 0)

NoLocals ==
    [request_id |-> <<>>, data_dict |-> NonDict("none"),
     new_filename |-> <<>>, content |-> <<>>, attachment_saved |-> FALSE,
     row |-> NoRow, existing_data |-> <<>>,
     excel_saved |-> FALSE]

NoResponse ==
    [code |-> 0, success |-> FALSE, detail |-> "", request_id |-> <<>>,
     attachment_saved |-> FALSE, excel_saved |-> FALSE, data_received |-> NonDict("none")]

\* What a submission did to the shared files, and what it saw of them:
\*   created, written   the attachment files it created, and those it changed
\*   attachment_failed  whether creating or writing its attachment failed
\*   appends            how often it called save_to_excel
\*   append_result      "True", "False" (what save_to_excel returned) or "raised"
\*   append_failure     the step of save_to_excel that failed, if any
\*   store_before       the store file as save_to_excel found it
\*   store_after        the store file as save_to_excel left it
\*   seen_files, seen_store  the directory and the store file when it was answered
NoEffects ==
    [created |-> {}, written |-> {}, attachment_failed |-> FALSE,
     appends |-> 0, append_result |-> "", append_failure |-> "",
     store_before |-> StoreAbsent, store_after |-> StoreAbsent,
     seen_files |-> NoFiles, seen_store |-> StoreAbsent]

Start(stores) ==
    /\ clock = 0
    /\ store \in stores
    /\ store0 = store
    /\ files = NoFiles
    /\ pc = [r \in Requests |-> "idle"]
    /\ inp = [r \in Requests |-> [data |-> Malformed(NonDict("none")), attachment |-> NoAttachment]]
    /\ loc = [r \in Requests |-> NoLocals]
    /\ resp = [r \in Requests |-> NoResponse]
    /\ events = [r \in Requests |-> <<>>]
    /\ fx = [r \in Requests |-> NoEffects]
    /\ loop = 0
    /\ faults = 0

Init == Start(InitialStores)

InitWide == Start(WideInitialStores)


----------------------------------------------------------------------------
(* Scheduling, faults and bookkeeping *)

\* In one server process the handlers share an event loop: a handler runs from
\* one suspension point to the next before any other handler runs. With several
\* processes (single = FALSE) every step of one may fall between two of another.
Sched(r, single) == single => loop \in {0, r}

\* an await between save_to_excel's read and its rewrite
YieldPointsInsideAppend == {"await_read", "excel_open", "done"}

\* The handler's only await (line 151), and its end.
YieldPoints == {"await_read", "done"}

Handoff(r, single, to) == loop' = IF single /\ to \notin YieldPoints THEN r ELSE 0

FaultChoices == IF faults < MaxFaults THEN {FALSE, TRUE} ELSE {FALSE}

Inject(fault) == faults' = IF fault THEN faults + 1 ELSE faults

Event(status, request_id) == [status |-> status, request_id |-> request_id]

\* every exception of the handler turned into a 400
ServerErrorAsBadRequest == [NoResponse EXCEPT !.code = 400, !.detail = "Invalid data"]

\* An exception nobody catches: the framework answers 500.
ServerError == [NoResponse EXCEPT !.code = 500, !.detail = "Internal Server Error"]

\* raise HTTPException(status_code=400, detail=f"Invalid JSON: {e}") (line 113)
\* and detail=f"Invalid data: {e}" (line 133)
Rejection(outcome) ==
    IF outcome = "invalid_json"
    THEN [NoResponse EXCEPT !.code = 400, !.detail = "Invalid JSON"]
    ELSE IF outcome = "invalid_data"
         THEN [NoResponse EXCEPT !.code = 400, !.detail = "Invalid data"]
         ELSE ServerError

\* f.write(content) at offset 0 of the file as it stands
WriteBytes(old, content) == content \o SubSeq(old, Len(content) + 1, Len(old))

Touch(r, old, new, failed) ==
    fx' = [fx EXCEPT ![r].created = @ \cup (DOMAIN new \ DOMAIN old),
                     ![r].written = @ \cup {n \in DOMAIN new : n \notin DOMAIN old \/ old[n] # new[n]},
                     ![r].attachment_failed = @ \/ failed]

\* the attachment branch taken for every submission
HasAttachmentAlways(attachment) == TRUE

\* Line 137: if attachment and attachment.filename
HasAttachment(attachment) == attachment.present /\ attachment.filename # <<>>

\* "except OSError"
SwallowedOSErrorOnly == {"OSError"}

\* save_to_excel's "except Exception" (line 253): the exceptions it turns into False.
Swallowed == {"OSError", "JSONDecodeError", "AttributeError"}

----------------------------------------------------------------------------
(* The handler, submit_transport_request *)

\* The clock is read at lines 80 and 213 only, so a tick counts where a
\* submission is about to read it.
Tick ==
    /\ clock < MaxTicks
    /\ \E r \in Requests : pc[r] \in {"idle", "excel"}
    /\ clock' = clock + 1
    /\ UNCHANGED <<store, files, pc, inp, loc, resp, events, fx, loop, faults, store0>>

\* handlers that log the error and do not raise
GoesOnAfterLogging(outcome) == outcome # "unhandled"

\* Lines 113 and 133: both handlers end in "raise HTTPException", so that only a
\* submission that was parsed and validated reaches line 135.
GoesOn(outcome) == outcome = "accepted"

\* Lines 72-147 and 161-162: the request id, parsing and validation with their
\* handlers and, for an accepted submission, the stored name and the directory
\* of its attachment, up to the await of line 151.
Receive(r, single, data, attachment, rand) ==
    /\ pc[r] = "idle"
    /\ Sched(r, single)
    /\ LET request_id == RequestId(clock, rand)
           outcome == ParseAndValidate(data)
           has == HasAttachment(attachment)
       IN  \E fault \in IF GoesOn(outcome) /\ has THEN FaultChoices ELSE {FALSE} :
             LET to == IF ~GoesOn(outcome) \/ fault THEN "done"
                       ELSE IF has THEN "await_read" ELSE "excel"
             IN  /\ Inject(fault)
                 /\ inp' = [inp EXCEPT ![r] = [data |-> data, attachment |-> attachment]]
                 /\ loc' = [loc EXCEPT ![r].request_id = request_id,
                                       ![r].data_dict = IF outcome = "accepted"
                                                        THEN json_loads(data).value ELSE @,
                                       ![r].new_filename =
                                           IF to = "await_read"
                                           THEN new_filename(request_id, attachment.filename)
                                           ELSE @]
                 /\ events' = [events EXCEPT ![r] =
                                  IF outcome = "accepted"
                                  THEN <<Event("PROCESSING", request_id)>>
                                  ELSE IF outcome \in {"invalid_json", "invalid_data"}
                                       THEN <<Event("ERROR", request_id)>>
                                       ELSE <<>>]
                 /\ resp' = [resp EXCEPT ![r] = IF outcome # "accepted" THEN Rejection(outcome)
                                                ELSE IF fault THEN ServerError ELSE @]
                 /\ Touch(r, files, files, fault)
                 /\ pc' = [pc EXCEPT ![r] = to]
                 /\ Handoff(r, single, to)
    /\ UNCHANGED <<clock, store, files, store0>>

\* Lines 151-152: content = await attachment.read(), then open(file_path, "wb"),
\* which creates the file or empties it.
OpenAttachment(r, single) ==
    /\ pc[r] = "await_read"
    /\ Sched(r, single)
    /\ \E fault \in FaultChoices :
         LET to == IF fault THEN "done" ELSE "write_att"
             name == loc[r].new_filename
         IN  /\ Inject(fault)
             /\ files' = IF fault THEN files ELSE With(files, name, <<>>)
             /\ Touch(r, files, files', fault)
             /\ loc' = [loc EXCEPT ![r].content = inp[r].attachment.content]
             /\ resp' = [resp EXCEPT ![r] = IF fault THEN ServerError ELSE @]
             /\ pc' = [pc EXCEPT ![r] = to]
             /\ Handoff(r, single, to)
    /\ UNCHANGED <<clock, store, inp, events, store0>>

\* Lines 153-154: f.write(content), the file closed, attachment_saved = True.
WriteAttachment(r, single) ==
    /\ pc[r] = "write_att"
    /\ Sched(r, single)
    /\ \E fault \in FaultChoices :
         LET to == IF fault THEN "done" ELSE "excel"
             name == loc[r].new_filename
         IN  /\ Inject(fault)
             /\ files' = IF fault THEN files
                         ELSE With(files, name, WriteBytes(files[name], loc[r].content))
             /\ Touch(r, files, files', fault)
             /\ loc' = [loc EXCEPT ![r].attachment_saved = ~fault]
             /\ resp' = [resp EXCEPT ![r] = IF fault THEN ServerError ELSE @]
             /\ pc' = [pc EXCEPT ![r] = to]
             /\ Handoff(r, single, to)
    /\ UNCHANGED <<clock, store, inp, events, store0>>


----------------------------------------------------------------------------
(* The record store's append, save_to_excel, called at line 173 *)

\* no try block in save_to_excel: its exceptions leave the handler
AfterExceptionUncaught(exc) == "done"

\* Where an exception raised inside save_to_excel's try block leads: the except
\* clause returns False to the handler; anything it does not catch leaves the
\* handler as an unhandled error.
AfterException(exc) == IF exc \in Swallowed THEN "respond" ELSE "done"

\* The bookkeeping of save_to_excel's end: by return or by an exception.
Returned(effects, r, to, failure, after) ==
    [effects EXCEPT ![r].append_result = IF to = "done" THEN "raised"
                                    ELSE IF failure = "" THEN "True" ELSE "False",
               ![r].append_failure = failure,
               ![r].store_after = after]

\* Lines 201-239: the directory, the row, the existing list, the append.
ExcelRead(r, single) ==
    /\ pc[r] = "excel"
    /\ Sched(r, single)
    /\ \E fault \in FaultChoices :
         LET row == row_data(loc[r].request_id, loc[r].data_dict.d, loc[r].attachment_saved, clock)
             existing == LoadExisting(store)
             appended == AppendRow(existing, row)
             exc == IF fault THEN "OSError"
                    ELSE IF ~existing.ok THEN "JSONDecodeError"
                    ELSE IF ~appended.ok THEN "AttributeError"
                    ELSE "none"
             to == IF exc = "none" THEN "excel_open" ELSE AfterException(exc)
             entered == [fx EXCEPT ![r].appends = @ + 1, ![r].store_before = store]
         IN  /\ Inject(fault)
             /\ loc' = [loc EXCEPT ![r].row = row,
                                   ![r].existing_data = IF exc = "none" THEN appended.items ELSE @,
                                   ![r].excel_saved = FALSE]
             /\ fx' = IF exc = "none" THEN entered ELSE Returned(entered, r, to, exc, store)
             /\ resp' = [resp EXCEPT ![r] = IF to = "done" THEN ServerError ELSE @]
             /\ pc' = [pc EXCEPT ![r] = to]
             /\ Handoff(r, single, to)
    /\ UNCHANGED <<clock, store, files, inp, events, store0>>

\* Line 242: open(json_path, 'w') creates the file or empties it.
ExcelOpen(r, single) ==
    /\ pc[r] = "excel_open"
    /\ Sched(r, single)
    /\ \E fault \in FaultChoices :
         LET to == IF fault THEN AfterException("OSError") ELSE "excel_dump"
         IN  /\ Inject(fault)
             /\ store' = IF fault THEN store ELSE StoreEmptied
             /\ fx' = IF fault THEN Returned(fx, r, to, "open", store) ELSE fx
             /\ resp' = [resp EXCEPT ![r] = IF to = "done" THEN ServerError ELSE @]
             /\ pc' = [pc EXCEPT ![r] = to]
             /\ Handoff(r, single, to)
    /\ UNCHANGED <<clock, files, inp, loc, events, store0>>

\* Lines 243-251: json.dump of the extended list, the file closed, return True.
ExcelDump(r, single) ==
    /\ pc[r] = "excel_dump"
    /\ Sched(r, single)
    /\ \E fault \in FaultChoices :
         LET to == IF fault THEN AfterException("OSError") ELSE "respond"
         IN  /\ Inject(fault)
             /\ store' = IF fault THEN store
                         ELSE WriteAtStart(store, StoreText(loc[r].existing_data))
             /\ fx' = Returned(fx, r, to, IF fault THEN "dump" ELSE "", store')
             /\ loc' = [loc EXCEPT ![r].excel_saved = ~fault]
             /\ resp' = [resp EXCEPT ![r] = IF to = "done" THEN ServerError ELSE @]
             /\ pc' = [pc EXCEPT ![r] = to]
             /\ Handoff(r, single, to)
    /\ UNCHANGED <<clock, files, inp, events, store0>>

\* Lines 175-197: the SUCCESS event and the response.
Respond(r, single) ==
    /\ pc[r] = "respond"
    /\ Sched(r, single)
    /\ events' = [events EXCEPT ![r] = Append(@, Event("SUCCESS", loc[r].request_id))]
    /\ resp' = [resp EXCEPT ![r] =
                   [code |-> 200, success |-> TRUE, detail |-> "",
                    request_id |-> loc[r].request_id,
                    attachment_saved |-> loc[r].attachment_saved,
                    excel_saved |-> loc[r].excel_saved,
                    data_received |-> loc[r].data_dict]]
    /\ fx' = [fx EXCEPT ![r].seen_files = files, ![r].seen_store = store]
    /\ pc' = [pc EXCEPT ![r] = "done"]
    /\ Handoff(r, single, "done")
    /\ UNCHANGED <<clock, store, files, inp, loc, faults, store0>>

----------------------------------------------------------------------------
(* The specifications *)

Submit(r, single, D, A) ==
    \E data \in D, attachment \in A, rand \in RandValues :
        Receive(r, single, data, attachment, rand)

Handle(r, single) ==
    \/ OpenAttachment(r, single)
    \/ WriteAttachment(r, single)
    \/ ExcelRead(r, single)
    \/ ExcelOpen(r, single)
    \/ ExcelDump(r, single)
    \/ Respond(r, single)

\* Submissions are numbered in the order they arrive.
Arrives(r) == \A q \in Requests : q < r => pc[q] # "idle"

\* One server process, as uvicorn.run(app, ...) starts it (lines 267-270).
Next ==
    \/ Tick
    \/ \E r \in Requests :
         \/ Arrives(r) /\ Submit(r, TRUE, Data, Attachments)
         \/ Handle(r, TRUE)

Spec == Init /\ [][Next]_vars

\* Several server processes over the same files: every interleaving of the
\* submissions' steps.
NextWorkers ==
    \/ Tick
    \/ \E r \in Requests :
         \/ Arrives(r) /\ Submit(r, FALSE, Data, FewAttachments)
         \/ Handle(r, FALSE)

SpecWorkers == Init /\ [][NextWorkers]_vars

\* One submission at a time, each arriving after the one before it was answered,
\* over the wide set of stores.
InOrder(r) == \A q \in Requests : q < r => pc[q] = "done"

NextSerial ==
    \/ Tick
    \/ \E r \in Requests :
         \/ InOrder(r) /\ Submit(r, TRUE, Data, Attachments)
         \/ Handle(r, TRUE)

SpecSerial == InitWide /\ [][NextSerial]_vars

\* A single submission, over the wide sets of data fields and of attachments.
NextValidate ==
    \/ Tick
    \/ Submit(1, TRUE, WideData, {NoAttachment})
    \/ Submit(1, TRUE, {Dumps(Dict(PaddedPayload))}, WideAttachments)
    \/ Handle(1, TRUE)

SpecValidate == Init /\ [][NextValidate]_vars

----------------------------------------------------------------------------
(* The properties *)

Answered(r) == pc[r] = "done"

Accepted(r) == Answered(r) /\ resp[r].code = 200

\* Empty, or whitespace only.
Blank(s) == \A i \in 1..Len(s) : s[i] \in Whitespace

IsJsonObject(data) == data.t = "json" /\ data.v.ty = "dict"

\* A JSON object whose six required fields are strings that are not blank and
\* whose two other fields are strings.
ValidData(data) ==
    /\ IsJsonObject(data)
    /\ \A f \in AllFields : f \in DOMAIN data.v.d /\ data.v.d[f].ty = "str"
    /\ \A f \in RequiredFields : ~Blank(data.v.d[f].s)

\* C1: every valid submission whose attachment write does not fail is answered
\* 200 with success true and a request_id of the form REQ-<8 digits>-<6 digits>-
\* <3 digits>: with or without an attachment, whatever save_to_excel returns, and
\* under every interleaving of concurrent submissions.
C1_ValidSubmissionSucceeds ==
    \A r \in Requests :
        (Answered(r) /\ ValidData(inp[r].data) /\ ~fx[r].attachment_failed)
        => /\ resp[r].code = 200
           /\ resp[r].success
           /\ MatchesIdPattern(resp[r].request_id)

\* Two valid submissions in flight together, one with an attachment and one
\* without, the first reading the store while the second rewrites it, so that
\* its append returns False: both answered.
C1_Witness ==
    \E r, q \in Requests :
        /\ r # q
        /\ Accepted(r) /\ Accepted(q)
        /\ ValidData(inp[r].data) /\ ValidData(inp[q].data)
        /\ resp[r].attachment_saved /\ ~inp[q].attachment.present
        /\ fx[r].append_result = "False"
        /\ fx[r].store_before = StoreEmptied

\* C2: a payload that parses as a JSON object and holds a blank string in one of
\* the six required fields is answered 400 with "Invalid data", never with
\* success, whatever its other keys hold.
C2_BlankFieldRejected ==
    \A r \in Requests :
        (/\ Answered(r)
         /\ IsJsonObject(inp[r].data)
         /\ \E f \in RequiredFields :
               /\ f \in DOMAIN inp[r].data.v.d
               /\ inp[r].data.v.d[f].ty = "str"
               /\ Blank(inp[r].data.v.d[f].s))
        => /\ resp[r].code = 400
           /\ resp[r].detail = "Invalid data"
           /\ ~resp[r].success

\* A payload whose only fault is a required field of whitespace, beside a key
\* outside the schema, is rejected.
C2_Witness ==
    \E r \in Requests :
        /\ Answered(r) /\ resp[r].code = 400 /\ resp[r].detail = "Invalid data"
        /\ IsJsonObject(inp[r].data)
        /\ ExtraKey \in DOMAIN inp[r].data.v.d
        /\ \A f \in AllFields : f \in DOMAIN inp[r].data.v.d /\ inp[r].data.v.d[f].ty = "str"
        /\ \E f \in RequiredFields :
              /\ inp[r].data.v.d[f].s = <<" ", " ">>
              /\ \A g \in RequiredFields \ {f} : ~Blank(inp[r].data.v.d[g].s)

\* C3: a data field that is not JSON is answered 400 with "Invalid JSON", and
\* "Invalid data" is given only to data fields that parse.
C3_MalformedJsonRejected ==
    \A r \in Requests :
        Answered(r) =>
            /\ inp[r].data.t # "json" => (resp[r].code = 400 /\ resp[r].detail = "Invalid JSON")
            /\ resp[r].detail = "Invalid data" => inp[r].data.t = "json"

\* A cut-off copy of a valid payload is rejected as invalid JSON.
C3_Witness ==
    \E r \in Requests :
        /\ Answered(r) /\ resp[r].code = 400 /\ resp[r].detail = "Invalid JSON"
        /\ inp[r].data = Malformed(Dict(BasePayload))


\* The record a submission is to leave in the store, but for its timestamp: the
\* returned request id, the payload's values under the store's keys, and "Yes"
\* exactly when the response says the attachment was saved.
IsRecordOf(row, r) ==
    LET d == inp[r].data.v.d IN
    /\ row.Request_ID = resp[r].request_id
    /\ row.Delivery_Note_Number = d["deliveryNoteNumber"]
    /\ row.Truck_License_Plates = d["truckLicensePlates"]
    /\ row.Trailer_License_Plates = d["trailerLicensePlates"]
    /\ row.Carrier_Country = d["carrierCountry"]
    /\ row.Carrier_Tax_Code = d["carrierTaxCode"]
    /\ row.Carrier_Full_Name = d["carrierFullName"]
    /\ row.Border_Crossing = d["borderCrossing"]
    /\ row.Border_Crossing_Date = d["borderCrossingDate"]
    /\ row.Has_Attachment = (IF resp[r].attachment_saved THEN "Yes" ELSE "No")

\* A submission with an attachment part that names a file.
CarriesFile(r) == inp[r].attachment.present /\ inp[r].attachment.filename # <<>>

\* The extension of a client's filename, in the claim's words: what follows the
\* last dot of its last path component, the dot included, unless that component
\* has no dot after its first character that is not a dot.
ExtensionOf(F) ==
    LET seps == {i \in 1..Len(F) : F[i] = "/"}
        from == IF seps = {} THEN 1 ELSE 1 + CHOOSE i \in seps : \A j \in seps : j <= i
        base == SubSeq(F, from, Len(F))
        dots == {i \in 1..Len(base) : base[i] = "." /\ \E j \in 1..(i - 1) : base[j] # "."}
    IN  IF dots = {} THEN <<>>
        ELSE SubSeq(base, CHOOSE i \in dots : \A j \in dots : j <= i, Len(base))

\* C4 (as claimed): an accepted submission that carries an attachment has, when
\* it is answered, created exactly one file, named by its request id and the
\* extension of the client's filename only, holding exactly the uploaded bytes,
\* and its response reports attachment_saved true.
C4_OneNewFileWithUploadedBytes ==
    \A r \in Requests :
        (Accepted(r) /\ CarriesFile(r)) =>
            LET name == AttachmentPrefix \o resp[r].request_id
                        \o ExtensionOf(inp[r].attachment.filename)
            IN  /\ resp[r].attachment_saved
                /\ fx[r].created = {name}
                /\ name \in DOMAIN fx[r].seen_files
                /\ fx[r].seen_files[name] = inp[r].attachment.content

\* C5 (as claimed): after an accepted submission with an attachment named F the
\* directory holds <request_id>_<F> with the uploaded bytes.
C5_FileNamedIdUnderscoreOriginal ==
    \A r \in Requests :
        (Accepted(r) /\ CarriesFile(r)) =>
            LET name == resp[r].request_id \o <<"_">> \o inp[r].attachment.filename
            IN  /\ name \in DOMAIN fx[r].seen_files
                /\ fx[r].seen_files[name] = inp[r].attachment.content

\* C8 (as claimed): any two accepted submissions have different request ids.
C8_RequestIdsDistinct ==
    \A r, q \in Requests :
        (r # q /\ Accepted(r) /\ Accepted(q)) => resp[r].request_id # resp[q].request_id


HoldsRecordLast(file, r) ==
    /\ file.t = "json" /\ file.ty = "list"
    /\ file.items # <<>>
    /\ IsRecordOf(file.items[Len(file.items)], r)

\* C6 (as claimed): an accepted submission without an attachment part reports
\* attachment_saved false, creates and changes no file of the attachments
\* directory, and has appended its record to the store when it is answered.
C6_NoAttachmentStillAppends ==
    \A r \in Requests :
        (Accepted(r) /\ ~inp[r].attachment.present) =>
            /\ ~resp[r].attachment_saved
            /\ fx[r].created = {} /\ fx[r].written = {}
            /\ HoldsRecordLast(fx[r].seen_store, r)

\* C6 (amended): an accepted submission without an attachment part reports
\* attachment_saved false, creates and changes no file of the attachments
\* directory and still calls save_to_excel, once; when that call returned True
\* (excel_saved true) its record is the store's last when it is answered.
C6_NoAttachmentStillCallsAppend ==
    \A r \in Requests :
        (Accepted(r) /\ ~inp[r].attachment.present) =>
            /\ ~resp[r].attachment_saved
            /\ fx[r].created = {} /\ fx[r].written = {}
            /\ fx[r].appends = 1
            /\ resp[r].excel_saved => HoldsRecordLast(fx[r].seen_store, r)

\* A submission without an attachment is answered with its record stored while
\* the directory holds another submission's file.
C6_Witness ==
    \E r \in Requests :
        /\ Accepted(r) /\ ~inp[r].attachment.present
        /\ resp[r].excel_saved
        /\ DOMAIN fx[r].seen_files # {}

Quiescent == \A r \in Requests : pc[r] \in {"idle", "done"}

AcceptedInOrder == SelectSeq([i \in 1..NumRequests |-> i], LAMBDA i : Accepted(i))

\* C7: from a store that is missing or a well-formed list of k records, after n
\* accepted submissions handled one at a time without I/O faults the store
\* holds the k records unchanged and in order, then one record per accepted
\* submission in submission order, each with the returned request id, the
\* payload's values under the store's keys and Has_Attachment "Yes" exactly
\* when attachment_saved was reported.
C7_SequentialAppends ==
    (Quiescent /\ faults = 0 /\ WellFormed(store0)) =>
        LET acc == AcceptedInOrder
            k == Len(store0.items)
        IN  IF acc = <<>> THEN store = store0
            ELSE /\ store.t = "json" /\ store.ty = "list"
                 /\ Len(store.items) = k + Len(acc)
                 /\ SubSeq(store.items, 1, k) = store0.items
                 /\ \A i \in 1..Len(acc) : IsRecordOf(store.items[k + i], acc[i])

\* Two accepted submissions with different payloads, one with an attachment,
\* after one old record.
C7_Witness ==
    /\ Quiescent /\ faults = 0
    /\ store0 = StoreText(OldRows(1))
    /\ Len(AcceptedInOrder) >= 2
    /\ Len(store.items) = 1 + Len(AcceptedInOrder)
    /\ \E r, q \in Requests :
          /\ r < q /\ Accepted(r) /\ Accepted(q)
          /\ inp[r].data # inp[q].data
          /\ resp[r].attachment_saved /\ ~resp[q].attachment_saved

\* C9: a validated submission whose save_to_excel call fails is still answered
\* 200 with success true and excel_saved false, and the attachment it wrote is
\* still in the directory; every success response reports excel_saved true
\* exactly when save_to_excel returned True.
C9_AppendFailureStillSucceeds ==
    \A r \in Requests :
        /\ (Answered(r) /\ fx[r].appends > 0 /\ fx[r].append_result # "True") =>
              /\ resp[r].code = 200 /\ resp[r].success
              /\ ~resp[r].excel_saved
              /\ fx[r].written \subseteq DOMAIN fx[r].seen_files
              /\ CarriesFile(r) =>
                    /\ resp[r].attachment_saved
                    /\ loc[r].new_filename \in DOMAIN fx[r].seen_files
        /\ Accepted(r) => (resp[r].excel_saved <=> fx[r].append_result = "True")

\* An attachment was written, then the store's file was emptied and the dump
\* failed: answered 200 with excel_saved false.
C9_Witness ==
    \E r \in Requests :
        /\ Accepted(r) /\ resp[r].attachment_saved /\ ~resp[r].excel_saved
        /\ fx[r].append_failure = "dump"
        /\ fx[r].created # {}

\* C10: save_to_excel never raises; it returns True only with the file rewritten
\* as the sequence it found (empty if the file was missing) followed by the new
\* record; it returns False when the file is not parseable, not a list, or a
\* directory or file operation fails; and when it returns False because the
\* file could not be read or parsed, the file is as it was.
C10_AppendContract ==
    \A r \in Requests :
        fx[r].append_result # "" =>
            /\ fx[r].append_result # "raised"
            /\ fx[r].append_result = "True" =>
                  /\ WellFormed(fx[r].store_before)
                  /\ fx[r].store_after.t = "json" /\ fx[r].store_after.ty = "list"
                  /\ fx[r].store_after.items = Append(fx[r].store_before.items, loc[r].row)
            /\ ~WellFormed(fx[r].store_before) => fx[r].append_result = "False"
            /\ fx[r].append_failure # "" => fx[r].append_result = "False"
            /\ fx[r].append_failure \in {"OSError", "JSONDecodeError"} =>
                  fx[r].store_after = fx[r].store_before

\* One call returned True after extending a list that was not empty.
C10_Witness ==
    \E r \in Requests :
        /\ fx[r].append_result = "True"
        /\ fx[r].store_before.t = "json"
        /\ fx[r].store_before.items # <<>>
        /\ Len(fx[r].store_after.items) = Len(fx[r].store_before.items) + 1


\* A file that is absent, or whose text is a JSON list of records with the
\* store's eleven keys.
DeserializesToRecords(file) ==
    /\ WellFormed(file)
    /\ \A i \in 1..Len(file.items) : DOMAIN file.items[i] = DOMAIN NoRow

\* C11 (as claimed): from a store that was absent or well formed, the store's
\* file is in every reachable state absent or the text of a list of records:
\* between the steps of an append and after an append that returned False too.
C11_StoreAlwaysDeserializes ==
    DeserializesToRecords(store0) => DeserializesToRecords(store)


\* Both called save_to_excel and found the same well-formed file: each read it
\* before the other rewrote it.
ReadTheSameStore(r, q) ==
    /\ fx[r].appends = 1 /\ fx[q].appends = 1
    /\ WellFormed(fx[r].store_before)
    /\ fx[r].store_before = fx[q].store_before

ValidatedEcho(d) == Dict([f \in AllFields |-> Str(TransportRequest(d).model[f])])

\* C13 (as claimed): data_received in a success response is the validated input:
\* the eight TransportRequest fields, the required ones stripped of surrounding
\* whitespace, also for payloads with padded values and with unknown keys.
C13_EchoIsValidatedInput ==
    \A r \in Requests :
        Accepted(r) => resp[r].data_received = ValidatedEcho(inp[r].data.v.d)


\* A data field that parses and of which TransportRequest(**...) raises.
FailsValidation(data) ==
    /\ data.t = "json"
    /\ ~(data.v.ty = "dict" /\ TransportRequest(data.v.d).ok)

\* C14 (as claimed): every event of a submission carries the request id fixed on
\* arrival; a submission whose data is not JSON or fails validation emits exactly
\* one ERROR event and is answered 400; an accepted one has emitted PROCESSING
\* before it touched a file or the store, and emits SUCCESS after save_to_excel
\* returned, with the request id of its response.
C14_EventsInOrder ==
    \A r \in Requests :
        /\ \A i \in 1..Len(events[r]) : events[r][i].request_id = loc[r].request_id
        /\ (Answered(r) /\ (inp[r].data.t # "json" \/ FailsValidation(inp[r].data))) =>
              /\ MatchesIdPattern(loc[r].request_id)
              /\ events[r] = <<Event("ERROR", loc[r].request_id)>>
              /\ resp[r].code = 400
        /\ (fx[r].created # {} \/ fx[r].written # {} \/ fx[r].attachment_failed \/ fx[r].appends > 0) =>
              /\ events[r] # <<>>
              /\ events[r][1] = Event("PROCESSING", loc[r].request_id)
        /\ (\E i \in 1..Len(events[r]) : events[r][i].status = "SUCCESS") =>
              fx[r].append_result \in {"True", "False"}
        /\ Accepted(r) =>
              events[r] = <<Event("PROCESSING", resp[r].request_id),
                            Event("SUCCESS", resp[r].request_id)>>


\* C15: a submission that passed validation and whose attachment could not be
\* written (mkdir, open or write failed) is answered 500, neither 400 nor
\* success; save_to_excel was not called for it, and its only event is
\* PROCESSING: no ERROR, no SUCCESS.
C15_AttachmentFailureIsServerError ==
    \A r \in Requests :
        fx[r].attachment_failed =>
            /\ Answered(r)
            /\ resp[r].code = 500 /\ ~resp[r].success
            /\ fx[r].appends = 0 /\ fx[r].append_result = ""
            /\ events[r] = <<Event("PROCESSING", loc[r].request_id)>>

\* The file was created and its write failed, the only submission so far: the
\* store is the one the run began with.
C15_Witness ==
    \E r \in Requests :
        /\ fx[r].attachment_failed /\ fx[r].created # {}
        /\ resp[r].code = 500
        /\ \A q \in Requests \ {r} : pc[q] = "idle"
        /\ store = store0 /\ store = StoreText(OldRows(MaxInitial))


AcceptedOnes == {r \in Requests : Accepted(r)}

\* A submission the handler rejects with 400, by its response or by its data.
IsRejected(r) ==
    \/ resp[r].code = 400
    \/ pc[r] # "idle" /\ (inp[r].data.t # "json" \/ FailsValidation(inp[r].data))

TouchedNothing(r) ==
    /\ fx[r].created = {} /\ fx[r].written = {} /\ ~fx[r].attachment_failed
    /\ fx[r].appends = 0

\* The records the store has gained since the run began, if it is a list.
RecordsGained == IF store.t = "json" /\ store.ty = "list"
                 THEN Len(store.items) - Len(store0.items) ELSE 0

\* C16 (as claimed): a rejected submission creates and changes no attachment
\* file and does not call save_to_excel, with or without an attachment; and once
\* every submission is answered, neither the records the store has gained nor
\* the files of the attachments directory outnumber the accepted submissions.
C16_RejectedTouchesNothing ==
    /\ \A r \in Requests : IsRejected(r) => TouchedNothing(r)
    /\ Quiescent =>
          /\ RecordsGained <= Cardinality(AcceptedOnes)
          /\ Cardinality(DOMAIN files) <= Cardinality(AcceptedOnes)

\* C16 (amended): as above, the files of the directory being counted only when
\* no attachment write failed; the submissions whose attachment was written
\* completely and those whose record was appended are all accepted ones.
C16_RejectedTouchesNothingUnlessWriteFailed ==
    /\ \A r \in Requests : IsRejected(r) => TouchedNothing(r)
    /\ Quiescent =>
          /\ RecordsGained <= Cardinality(AcceptedOnes)
          /\ {r \in Requests : fx[r].append_result = "True"} \subseteq AcceptedOnes
          /\ {r \in Requests : loc[r].attachment_saved} \subseteq AcceptedOnes
          /\ (\A r \in Requests : ~fx[r].attachment_failed) =>
                Cardinality(DOMAIN files) <= Cardinality(AcceptedOnes)

\* Two submissions with an attachment each, one whose data is not JSON and one
\* whose data fails validation, both answered 400: no file, the store as it was.
C16_Witness ==
    \E r, q \in Requests :
        /\ Answered(r) /\ Answered(q)
        /\ resp[r].code = 400 /\ resp[r].detail = "Invalid JSON"
        /\ resp[q].code = 400 /\ resp[q].detail = "Invalid data"
        /\ HasAttachment(inp[r].attachment) /\ HasAttachment(inp[q].attachment)
        /\ files = NoFiles /\ store = store0


\* Where a submission is while another one's handler runs: not yet arrived, at
\* the await of line 151, or answered.
Suspended(r) == pc[r] \in {"idle", "await_read", "done"}

\* C17: in one server process a handler is suspended only at the await that
\* precedes the store's step, so that no two are past it together and
\* save_to_excel runs from its read to the end of its rewrite alone; and with no
\* I/O fault, from a store that is missing or a list of k records, once all are
\* answered every valid submission was accepted with excel_saved true and the
\* store is the k records followed by one record for each of them.
C17_OneLoopLosesNoUpdate ==
    /\ \A r, q \in Requests : (r # q /\ ~Suspended(r)) => Suspended(q)
    /\ (Quiescent /\ faults = 0 /\ WellFormed(store0)) =>
          LET k == Len(store0.items)
              n == Cardinality(AcceptedOnes)
          IN  /\ \A r \in Requests :
                    (Answered(r) /\ ValidData(inp[r].data)) => Accepted(r)
              /\ \A r \in AcceptedOnes : resp[r].excel_saved
              /\ IF n = 0 THEN store = store0
                 ELSE /\ store.t = "json" /\ store.ty = "list"
                      /\ Len(store.items) = k + n
                      /\ SubSeq(store.items, 1, k) = store0.items
                      /\ \E f \in [AcceptedOnes -> (k + 1)..(k + n)] :
                            /\ \A r, q \in AcceptedOnes : r # q => f[r] # f[q]
                            /\ \A r \in AcceptedOnes : IsRecordOf(store.items[f[r]], r)

\* The first submission waited at the await for its attachment while the second,
\* which had none, was handled from arrival to answer: the second's record comes
\* first, and both are there.
C17_Witness ==
    \E r, q \in Requests :
        /\ r < q /\ Accepted(r) /\ Accepted(q) /\ Quiescent /\ faults = 0
        /\ resp[r].attachment_saved /\ ~resp[q].attachment_saved
        /\ resp[r].excel_saved /\ resp[q].excel_saved
        /\ store0 = StoreText(OldRows(MaxInitial))
        /\ store.t = "json" /\ Len(store.items) = MaxInitial + 2
        /\ IsRecordOf(store.items[MaxInitial + 1], q)
        /\ IsRecordOf(store.items[MaxInitial + 2], r)


====
